---- MODULE Spec2Model ----
(***************************************************************************)
(* Model of the streaming chat relay of AI-Assistant:                      *)
(*   src/app/api/chat/route.ts  POST      (the relay endpoint)             *)
(*   src/app/page.tsx           HomePage  (the stream consumer)            *)
(* One request is followed from its arrival to its terminal outcome, with  *)
(* the identity provider, the persistence store, the upstream completion   *)
(* source and the client's disconnect as the environment.  Spec is the     *)
(* relay alone, System the page and the relay together, Reader the page's  *)
(* read loop over a response body of any content, Settled handleSubmit     *)
(* against a response that has ended or failed, Pair two relay invocations *)
(* for one conversation.                                                   *)
(*                                                                         *)
(* Text is a sequence of characters, each character a string token (an     *)
(* ASCII character names itself, "e_acute" is U+00E9, "U+FFFD" the         *)
(* replacement character).  Bytes are sequences of numbers 0..255.         *)
(***************************************************************************)
EXTENDS Integers, Sequences, FiniteSets, TLC

VARIABLES
    pc,                     \* position of POST / of readable.start
    message,                \* request body: message
    existingConversationId, \* request body: conversationId
    user,                   \* result of supabase.auth.getUser()
    conversationId,         \* let conversationId (route.ts:19)
    conversations,          \* store table 'conversations', in creation order
    messages,               \* store table 'messages', in creation order
    fullAssistantMessage,   \* let fullAssistantMessage (route.ts:51)
    streamState,            \* state of the ReadableStream `readable`
    response,               \* the Response POST returned
    enqueued,               \* history: chunks accepted by controller.enqueue
    upstreamCalls,          \* history: calls of generateContentStream
    upstreamEmitted,        \* history: fragments result.stream yielded
    upstreamOutcome,        \* history: how result.stream terminated
    assistantAttempts,      \* history: 'assistant' inserts issued
    closeCalled,            \* history: controller.close() succeeded
    reported,               \* history: the errors the store and upstream gave
    cancelled,              \* history: the client cancelled the stream
    peer,                   \* a second POST in the same process, suspended
    clientPc,               \* position of handleSubmit
    input,                  \* page state: input
    loading,                \* page state: loading
    uiMessages,             \* page state: messages (the transcript)
    uiConversationId,       \* page state: conversationId
    closureConversationId,  \* conversationId as handleSubmit's closure holds it
    userMessage,            \* const userMessage (page.tsx:144)
    assistantMessage,       \* let assistantMessage (page.tsx:163)
    isFirstChunk,           \* let isFirstChunk (page.tsx:164)
    readPos,                \* bytes of the response body the reader has returned
    loadPending,            \* id of the loadConversation in flight, or Null
    fetchConversationsCalls, \* history: calls of fetchConversations
    firstRead,              \* history: the bytes of the first read (empty before it)
    readFailed,             \* history: reader.read() rejected
    splits,                 \* history: reads that ended inside a chunk
    clicks,                 \* history: clicks on "new chat" or a conversation
    submittedFrom           \* history: the transcript when handleSubmit ran

clientVars == <<clientPc, input, loading, uiMessages, uiConversationId,
                closureConversationId, userMessage, assistantMessage,
                isFirstChunk, readPos, loadPending, fetchConversationsCalls,
                firstRead, readFailed, splits, clicks, submittedFrom>>

vars == <<pc, message, existingConversationId, user, conversationId,
          conversations, messages, fullAssistantMessage, streamState,
          response, enqueued, upstreamCalls, upstreamEmitted,
          upstreamOutcome, assistantAttempts, closeCalled, reported,
          cancelled, peer, clientVars>>

----------------------------------------------------------------------------
(* Bounds of the model *)

\* the upstream yields at most this many fragments in one stream
MaxFragments == 2

\* the transport cuts at most this many reads inside a chunk the relay
\* enqueued (reads that end where a chunk ends are not counted)
MaxSplits == 1

\* the user clicks "new chat" or a conversation at most this many times
MaxClicks == 1

----------------------------------------------------------------------------
(* Values *)

\* JavaScript null / undefined; no text, since a text holds one-character tokens
Null == <<"null">>

NL == "\n"
QUOTE == "\""
BACKSLASH == "\\"
REPLACEMENT == "U+FFFD"

RECURSIVE Flatten(_)
\* concatenation, in order, of a sequence of sequences
Flatten(ss) ==
    IF ss = <<>> THEN <<>> ELSE Head(ss) \o Flatten(Tail(ss))

RECURSIVE IndexFrom(_, _, _)
\* first i >= from with t[i] = c, or 0
IndexFrom(t, c, from) ==
    IF from > Len(t) THEN 0
    ELSE IF t[from] = c THEN from
    ELSE IndexFrom(t, c, from + 1)

\* String.prototype.indexOf(c), 1-based; 0 where JavaScript gives -1
IndexOf(t, c) == IndexFrom(t, c, 1)

\* the test of route.ts:22 dropped: every request creates a conversation
FalsyAlways(v) == TRUE

\* `!x` of JavaScript for a value that is null or a string
Falsy(v) == v = Null \/ v = <<>>

----------------------------------------------------------------------------
(* UTF-8: new TextEncoder().encode(text), and its inverse *)

Alphabet ==
    {"{", "}", QUOTE, ":", BACKSLASH, NL, "c", "o", "n", "v", "e", "r", "s",
     "a", "t", "i", "I", "d", "1", "2", "H", "x", "e_acute", REPLACEMENT}

\* the Unicode code point of a character
CodePoint(c) ==
    CASE c = NL -> 10
      [] c = QUOTE -> 34
      [] c = "1" -> 49
      [] c = "2" -> 50
      [] c = ":" -> 58
      [] c = "H" -> 72
      [] c = "I" -> 73
      [] c = BACKSLASH -> 92
      [] c = "a" -> 97
      [] c = "c" -> 99
      [] c = "d" -> 100
      [] c = "e" -> 101
      [] c = "i" -> 105
      [] c = "n" -> 110
      [] c = "o" -> 111
      [] c = "r" -> 114
      [] c = "s" -> 115
      [] c = "t" -> 116
      [] c = "v" -> 118
      [] c = "x" -> 120
      [] c = "{" -> 123
      [] c = "}" -> 125
      [] c = "e_acute" -> 233
      [] c = REPLACEMENT -> 65533

\* the character of a code point; the model's alphabet is closed under the
\* texts the relay handles
CharOf(cp) ==
    IF \E c \in Alphabet : CodePoint(c) = cp
    THEN CHOOSE c \in Alphabet : CodePoint(c) = cp
    ELSE REPLACEMENT

\* UTF-8 bytes of one code point of the Basic Multilingual Plane
Utf8Char(cp) ==
    IF cp < 128 THEN <<cp>>
    ELSE IF cp < 2048 THEN <<192 + (cp \div 64), 128 + (cp % 64)>>
    ELSE <<224 + (cp \div 4096), 128 + ((cp \div 64) % 64), 128 + (cp % 64)>>

RECURSIVE TextEncode(_)
\* new TextEncoder().encode(text)
TextEncode(text) ==
    IF text = <<>> THEN <<>>
    ELSE Utf8Char(CodePoint(Head(text))) \o TextEncode(Tail(text))

IsContinuation(bytes, i) ==
    i <= Len(bytes) /\ bytes[i] >= 128 /\ bytes[i] < 192

RECURSIVE TextDecode(_)
\* new TextDecoder().decode(bytes): malformed input becomes U+FFFD
TextDecode(bytes) ==
    IF bytes = <<>> THEN <<>>
    ELSE LET b == bytes[1] IN
        IF b < 128
        THEN <<CharOf(b)>> \o TextDecode(Tail(bytes))
        ELSE IF b >= 194 /\ b < 224 /\ IsContinuation(bytes, 2)
        THEN <<CharOf((b - 192) * 64 + (bytes[2] - 128))>>
             \o TextDecode(SubSeq(bytes, 3, Len(bytes)))
        ELSE IF b >= 224 /\ b < 240 /\ IsContinuation(bytes, 2)
                /\ IsContinuation(bytes, 3)
        THEN <<CharOf((b - 224) * 4096 + (bytes[2] - 128) * 64
                      + (bytes[3] - 128))>>
             \o TextDecode(SubSeq(bytes, 4, Len(bytes)))
        ELSE <<REPLACEMENT>> \o TextDecode(Tail(bytes))

----------------------------------------------------------------------------
(* JSON: JSON.stringify of an object with one string field, and JSON.parse *)

\* a stringify that copies the characters without escaping any
JsonEscapeNone(s) == s

RECURSIVE JsonEscape(_)
\* the characters of a JSON string literal, between its quotes
JsonEscape(s) ==
    IF s = <<>> THEN <<>>
    ELSE LET c == Head(s) IN
        (CASE c = QUOTE -> <<BACKSLASH, QUOTE>>
           [] c = BACKSLASH -> <<BACKSLASH, BACKSLASH>>
           [] c = NL -> <<BACKSLASH, "n">>
           [] OTHER -> <<c>>)
        \o JsonEscape(Tail(s))

\* JSON.stringify of a string
JsonQuote(s) == <<QUOTE>> \o JsonEscape(s) \o <<QUOTE>>

\* JSON.stringify({ [key]: value }) for a string value
JsonStringify(key, value) ==
    <<"{">> \o JsonQuote(key) \o <<":">> \o JsonQuote(value) \o <<"}">>

ParseFailure == [ok |-> FALSE, value |-> <<>>, next |-> 0]

RECURSIVE ScanString(_, _, _)
\* reads a string literal's characters from position i (after the opening
\* quote) up to its closing quote
ScanString(t, i, acc) ==
    IF i > Len(t) THEN ParseFailure
    ELSE IF t[i] = QUOTE THEN [ok |-> TRUE, value |-> acc, next |-> i + 1]
    ELSE IF t[i] = NL THEN ParseFailure
    ELSE IF t[i] = BACKSLASH
    THEN IF i + 1 > Len(t) THEN ParseFailure
         ELSE IF t[i + 1] = QUOTE THEN ScanString(t, i + 2, Append(acc, QUOTE))
         ELSE IF t[i + 1] = BACKSLASH
         THEN ScanString(t, i + 2, Append(acc, BACKSLASH))
         ELSE IF t[i + 1] = "n" THEN ScanString(t, i + 2, Append(acc, NL))
         ELSE ParseFailure
    ELSE ScanString(t, i + 1, Append(acc, t[i]))

\* a string literal starting at position i
ParseString(t, i) ==
    IF i <= Len(t) /\ t[i] = QUOTE THEN ScanString(t, i + 1, <<>>)
    ELSE ParseFailure

\* JSON.parse(t) for the texts of the model: an object with one field whose
\* value is a string.  ok = FALSE stands for the SyntaxError JSON.parse throws.
JsonParse(t) ==
    IF Len(t) = 0 \/ t[1] # "{" THEN [ok |-> FALSE, key |-> <<>>, value |-> <<>>]
    ELSE LET k == ParseString(t, 2) IN
        IF ~k.ok \/ k.next > Len(t) \/ t[k.next] # ":"
        THEN [ok |-> FALSE, key |-> <<>>, value |-> <<>>]
        ELSE LET v == ParseString(t, k.next + 1) IN
            IF v.ok /\ v.next = Len(t) /\ t[v.next] = "}"
            THEN [ok |-> TRUE, key |-> k.value, value |-> v.value]
            ELSE [ok |-> FALSE, key |-> <<>>, value |-> <<>>]

----------------------------------------------------------------------------
(* The environment's inputs *)

TitleLimit == 50

RECURSIVE Repeat(_, _)
Repeat(c, n) == IF n = 0 THEN <<>> ELSE <<c>> \o Repeat(c, n - 1)

\* request texts: a short one, one as long as the title limit, one longer
Messages == {<<"H", "i">>, Repeat("a", TitleLimit), Repeat("a", TitleLimit + 1)}

\* a conversation of the store before the request
OldId == <<"c", "1">>
\* an id whose characters JSON has to escape
OddId == <<"c", QUOTE, NL>>
\* the id the store generates for a conversation it creates
NewIds == {<<"c", "2">>}

\* values of the request's conversationId field
RequestIds == {Null, <<>>, OldId, OddId}

NoUser == "null"
Users == {"u1"}

\* fragments chunk.text() returns
Fragments == {<<"H", "i">>, <<"e_acute", NL>>, <<>>}

\* errors the store reports (PostgrestError: a message, no status)
StoreErrors == {[message |-> <<"d", "b">>, status |-> 0],
                [message |-> <<>>, status |-> 0]}

\* errors generateContentStream throws (a fetch error carries the HTTP status)
UpstreamErrors == {[message |-> <<"x">>, status |-> 429],
                   [message |-> <<"x">>, status |-> 0]}

InitConversations ==
    <<[id |-> OldId, user_id |-> "u1", title |-> <<"o">>]>>

InitMessages ==
    <<[conversation_id |-> OldId, role |-> "user", content |-> <<"x">>]>>

----------------------------------------------------------------------------
(* Responses *)

NoResponse == [status |-> 0, contentType |-> "", body |-> Null]

Readable == <<"readable">>

UnauthorizedText ==
    <<"U", "n", "a", "u", "t", "h", "o", "r", "i", "z", "e", "d">>

DefaultErrorText ==
    <<"G", "e", "m", "i", "n", "i", " ", "A", "P", "I", " ",
      "E", "r", "r", "o", "r">>

ErrorKey == <<"e", "r", "r", "o", "r">>

ConversationIdKey ==
    <<"c", "o", "n", "v", "e", "r", "s", "a", "t", "i", "o", "n", "I", "d">>

\* new Response('Unauthorized', { status: 401 })
UnauthorizedResponse ==
    [status |-> 401, contentType |-> "text/plain", body |-> UnauthorizedText]

\* a catch block that answers the JSON error with the default status 200
ErrorResponseOk(error) ==
    [status |-> 200,
     contentType |-> "application/json",
     body |-> JsonStringify(ErrorKey,
                            IF error.message # <<>> THEN error.message
                            ELSE DefaultErrorText)]

\* the catch block of POST: the JSON error response
ErrorResponse(error) ==
    [status |-> IF error.status # 0 THEN error.status ELSE 500,
     contentType |-> "application/json",
     body |-> JsonStringify(ErrorKey,
                            IF error.message # <<>> THEN error.message
                            ELSE DefaultErrorText)]

\* new Response(readable, { headers })
StreamResponse ==
    [status |-> 200, contentType |-> "text/plain", body |-> Readable]

\* a title that adds the ellipsis from 50 characters on (`>=` for `>`)
TitleEllipsisAtLimit(text) ==
    SubSeq(text, 1, IF Len(text) < TitleLimit THEN Len(text) ELSE TitleLimit)
    \o (IF Len(text) >= TitleLimit THEN <<".", ".", ".">> ELSE <<>>)

\* message.substring(0, 50) + (message.length > 50 ? '...' : '')
Title(text) ==
    SubSeq(text, 1, IF Len(text) < TitleLimit THEN Len(text) ELSE TitleLimit)
    \o (IF Len(text) > TitleLimit THEN <<".", ".", ".">> ELSE <<>>)

\* JSON.stringify({ conversationId }) + '\n'
InitialPayload(id) == JsonStringify(ConversationIdKey, id) \o <<NL>>

----------------------------------------------------------------------------
(* The request *)

\* no second POST runs
NoPeer == [pc |-> "none"]

\* the page before any handleSubmit, with `text` typed into the input and
\* conversation `id` (or none) selected
PageIdle(text, id) ==
    /\ clientPc = "idle"
    /\ input = text
    /\ loading = FALSE
    /\ uiConversationId = id
    /\ uiMessages =
           IF id = Null THEN <<>>
           ELSE [i \in 1..Len(InitMessages) |->
                    [role |-> InitMessages[i].role,
                     content |-> InitMessages[i].content]]
    /\ closureConversationId = Null
    /\ userMessage = <<>>
    /\ assistantMessage = <<>>
    /\ isFirstChunk = TRUE
    /\ readPos = 0
    /\ loadPending = Null
    /\ fetchConversationsCalls = 0
    /\ firstRead = <<>>
    /\ readFailed = FALSE
    /\ splits = 0
    /\ clicks = 0
    /\ submittedFrom = <<>>

Init ==
    /\ PageIdle(<<>>, Null)
    /\ pc = "getUser"
    /\ message \in Messages
    /\ existingConversationId \in RequestIds
    /\ user = NoUser
    /\ conversationId = Null
    /\ conversations = InitConversations
    /\ messages = InitMessages
    /\ fullAssistantMessage = <<>>
    /\ streamState = "none"
    /\ response = NoResponse
    /\ enqueued = <<>>
    /\ upstreamCalls = 0
    /\ upstreamEmitted = <<>>
    /\ upstreamOutcome = "none"
    /\ assistantAttempts = 0
    /\ closeCalled = FALSE
    /\ reported = {}
    /\ cancelled = FALSE
    /\ peer = NoPeer

\* a POST without the `if (!user)` return of route.ts:14
GetUserReturnsUnchecked ==
    /\ pc = "getUser"
    /\ \E u \in Users \cup {NoUser} :
        /\ user' = u
        /\ conversationId' = existingConversationId
        /\ pc' = IF Falsy(existingConversationId)
                 THEN "insertConversation"
                 ELSE "insertUserMessage"
        /\ response' = IF u = NoUser THEN UnauthorizedResponse ELSE response
    /\ UNCHANGED <<reported, message, existingConversationId, conversations,
                   messages, fullAssistantMessage, streamState, enqueued,
                   upstreamCalls, upstreamEmitted, upstreamOutcome,
                   assistantAttempts, closeCalled, cancelled>>

\* supabase.auth.getUser() returns; without a user POST answers 401, with
\* one it issues the first insert
GetUserReturns ==
    /\ pc = "getUser"
    /\ \E u \in Users \cup {NoUser} :
        /\ user' = u
        /\ IF u = NoUser
           THEN /\ response' = UnauthorizedResponse
                /\ pc' = "done"
                /\ UNCHANGED conversationId
           ELSE /\ conversationId' = existingConversationId
                /\ pc' = IF Falsy(existingConversationId)
                         THEN "insertConversation"
                         ELSE "insertUserMessage"
                /\ UNCHANGED response
    /\ UNCHANGED <<reported, message, existingConversationId, conversations, messages,
                   fullAssistantMessage, streamState, enqueued, upstreamCalls,
                   upstreamEmitted, upstreamOutcome, assistantAttempts,
                   closeCalled, cancelled>>

\* a POST without the `if (convError) throw convError` of route.ts:32
ConversationInsertReturnsNoThrow ==
    /\ pc = "insertConversation"
    /\ \/ \E id \in NewIds :
            /\ conversations' =
                   Append(conversations,
                          [id |-> id, user_id |-> user, title |-> Title(message)])
            /\ conversationId' = id
            /\ UNCHANGED reported
       \/ \E convError \in StoreErrors :
            /\ reported' = reported \cup {"convError"}
            /\ UNCHANGED <<conversations, conversationId>>
    /\ pc' = "insertUserMessage"
    /\ UNCHANGED <<message, existingConversationId, user, messages, response,
                   fullAssistantMessage, streamState, enqueued, upstreamCalls,
                   upstreamEmitted, upstreamOutcome, assistantAttempts,
                   closeCalled, cancelled>>

\* the insert into 'conversations' returns: the new row, or convError, which
\* POST throws into its catch block
ConversationInsertReturns ==
    /\ pc = "insertConversation"
    /\ \/ \E id \in NewIds :
            /\ conversations' =
                   Append(conversations,
                          [id |-> id, user_id |-> user, title |-> Title(message)])
            /\ conversationId' = id
            /\ pc' = "insertUserMessage"
            /\ UNCHANGED <<response, reported>>
       \/ \E convError \in StoreErrors :
            /\ reported' = reported \cup {"convError"}
            /\ response' = ErrorResponse(convError)
            /\ pc' = "done"
            /\ UNCHANGED <<conversations, conversationId>>
    /\ UNCHANGED <<message, existingConversationId, user, messages,
                   fullAssistantMessage, streamState, enqueued, upstreamCalls,
                   upstreamEmitted, upstreamOutcome, assistantAttempts,
                   closeCalled, cancelled>>

\* a POST without the `if (userMsgError) throw userMsgError` of route.ts:45
UserMessageInsertReturnsNoThrow ==
    /\ pc = "insertUserMessage"
    /\ \/ /\ messages' =
                 Append(messages,
                        [conversation_id |-> conversationId, role |-> "user",
                         content |-> message])
          /\ UNCHANGED reported
       \/ \E userMsgError \in StoreErrors :
            /\ reported' = reported \cup {"userMsgError"}
            /\ UNCHANGED messages
    /\ upstreamCalls' = upstreamCalls + 1
    /\ pc' = "generateContentStream"
    /\ UNCHANGED <<message, existingConversationId, user, conversationId,
                   conversations, fullAssistantMessage, streamState, enqueued,
                   response, upstreamEmitted, upstreamOutcome,
                   assistantAttempts, closeCalled, cancelled>>

\* the insert of the 'user' message returns: on success POST calls
\* generateContentStream(message), on userMsgError it throws
UserMessageInsertReturns ==
    /\ pc = "insertUserMessage"
    /\ \/ /\ messages' =
                 Append(messages,
                        [conversation_id |-> conversationId, role |-> "user",
                         content |-> message])
          /\ upstreamCalls' = upstreamCalls + 1
          /\ pc' = "generateContentStream"
          /\ UNCHANGED <<response, reported>>
       \/ \E userMsgError \in StoreErrors :
            /\ reported' = reported \cup {"userMsgError"}
            /\ response' = ErrorResponse(userMsgError)
            /\ pc' = "done"
            /\ UNCHANGED <<messages, upstreamCalls>>
    /\ UNCHANGED <<message, existingConversationId, user, conversationId,
                   conversations, fullAssistantMessage, streamState, enqueued,
                   upstreamEmitted, upstreamOutcome, assistantAttempts,
                   closeCalled, cancelled>>

\* controller.enqueue(chunk) succeeds on a readable stream only; on a closed
\* or errored one it throws a TypeError
CanEnqueue == streamState = "readable"

\* a catch block that deletes the user message again when the upstream
\* cannot be opened
GenerateContentStreamReturnsCompensates ==
    /\ pc = "generateContentStream"
    /\ \/ /\ streamState' = "readable"
          /\ enqueued' = Append(enqueued, TextEncode(InitialPayload(conversationId)))
          /\ response' = StreamResponse
          /\ pc' = "streaming"
          /\ UNCHANGED <<reported, messages>>
       \/ \E error \in UpstreamErrors :
            /\ reported' = reported \cup {"generateError"}
            /\ response' = ErrorResponse(error)
            /\ messages' = SubSeq(messages, 1, Len(messages) - 1)
            /\ pc' = "done"
            /\ UNCHANGED <<streamState, enqueued>>
    /\ UNCHANGED <<message, existingConversationId, user, conversationId,
                   conversations, fullAssistantMessage, upstreamCalls,
                   upstreamEmitted, upstreamOutcome, assistantAttempts,
                   closeCalled, cancelled>>

\* generateContentStream returns: with a stream, POST constructs `readable`,
\* whose start() runs at once up to its first await (it enqueues the
\* preamble and asks for the first fragment), and returns the Response;
\* with an error, POST answers from its catch block
GenerateContentStreamReturns ==
    /\ pc = "generateContentStream"
    /\ \/ /\ streamState' = "readable"
          /\ enqueued' = Append(enqueued, TextEncode(InitialPayload(conversationId)))
          /\ response' = StreamResponse
          /\ pc' = "streaming"
          /\ UNCHANGED reported
       \/ \E error \in UpstreamErrors :
            /\ reported' = reported \cup {"generateError"}
            /\ response' = ErrorResponse(error)
            /\ pc' = "done"
            /\ UNCHANGED <<streamState, enqueued>>
    /\ UNCHANGED <<message, existingConversationId, user, conversationId,
                   conversations, messages, fullAssistantMessage, upstreamCalls,
                   upstreamEmitted, upstreamOutcome, assistantAttempts,
                   closeCalled, cancelled>>

\* controller.error(e): errors a readable stream, does nothing otherwise
ControllerError == IF streamState = "readable" THEN "errored" ELSE streamState

\* a loop body that assigns the fragment (`=`) where route.ts:62 appends (`+=`)
UpstreamFragmentAssign ==
    /\ pc = "streaming"
    /\ Len(upstreamEmitted) < MaxFragments
    /\ \E text \in Fragments :
        /\ upstreamEmitted' = Append(upstreamEmitted, text)
        /\ fullAssistantMessage' = text
        /\ IF CanEnqueue
           THEN /\ enqueued' = Append(enqueued, TextEncode(text))
                /\ UNCHANGED <<pc, streamState>>
           ELSE /\ streamState' = ControllerError
                /\ pc' = "done"
                /\ UNCHANGED enqueued
    /\ UNCHANGED <<reported, message, existingConversationId, user,
                   conversationId, conversations, messages, response,
                   upstreamCalls, upstreamOutcome, assistantAttempts,
                   closeCalled, cancelled>>

\* result.stream yields a fragment: the loop body appends its text and
\* enqueues it; a throwing enqueue ends start() in its catch block
UpstreamFragment ==
    /\ pc = "streaming"
    /\ Len(upstreamEmitted) < MaxFragments
    /\ \E text \in Fragments :
        /\ upstreamEmitted' = Append(upstreamEmitted, text)
        /\ fullAssistantMessage' = fullAssistantMessage \o text
        /\ IF CanEnqueue
           THEN /\ enqueued' = Append(enqueued, TextEncode(text))
                /\ UNCHANGED <<pc, streamState>>
           ELSE /\ streamState' = ControllerError
                /\ pc' = "done"
                /\ UNCHANGED enqueued
    /\ UNCHANGED <<reported, message, existingConversationId, user, conversationId,
                   conversations, messages, response, upstreamCalls,
                   upstreamOutcome, assistantAttempts, closeCalled, cancelled>>

\* a catch block that only logs the error and leaves the stream open
UpstreamErrorSwallowed ==
    /\ pc = "streaming"
    /\ upstreamOutcome' = "error"
    /\ pc' = "done"
    /\ UNCHANGED <<reported, message, existingConversationId, user,
                   conversationId, conversations, messages,
                   fullAssistantMessage, response, enqueued, upstreamCalls,
                   upstreamEmitted, assistantAttempts, closeCalled, cancelled,
                   streamState>>

\* result.stream (or chunk.text()) throws: the catch block of start()
UpstreamError ==
    /\ pc = "streaming"
    /\ upstreamOutcome' = "error"
    /\ streamState' = ControllerError
    /\ pc' = "done"
    /\ UNCHANGED <<reported, message, existingConversationId, user, conversationId,
                   conversations, messages, fullAssistantMessage, response,
                   enqueued, upstreamCalls, upstreamEmitted, assistantAttempts,
                   closeCalled, cancelled>>

\* result.stream ends: the loop exits and start() issues the 'assistant'
\* insert
UpstreamEnd ==
    /\ pc = "streaming"
    /\ upstreamOutcome' = "end"
    /\ assistantAttempts' = assistantAttempts + 1
    /\ pc' = "insertAssistantMessage"
    /\ UNCHANGED <<reported, message, existingConversationId, user, conversationId,
                   conversations, messages, fullAssistantMessage, streamState,
                   response, enqueued, upstreamCalls, upstreamEmitted,
                   closeCalled, cancelled>>

\* a start() that throws assistantMsgError where route.ts:75 logs it
AssistantInsertReturnsThrows ==
    /\ pc = "insertAssistantMessage"
    /\ \/ /\ messages' =
                 Append(messages,
                        [conversation_id |-> conversationId,
                         role |-> "assistant",
                         content |-> fullAssistantMessage])
          /\ IF streamState = "readable"
             THEN streamState' = "closed" /\ closeCalled' = TRUE
             ELSE streamState' = ControllerError /\ UNCHANGED closeCalled
          /\ UNCHANGED reported
       \/ \E assistantMsgError \in StoreErrors :
            /\ reported' = reported \cup {"assistantMsgError"}
            /\ streamState' = ControllerError
            /\ UNCHANGED <<messages, closeCalled>>
    /\ pc' = "done"
    /\ UNCHANGED <<message, existingConversationId, user, conversationId,
                   conversations, fullAssistantMessage, response, enqueued,
                   upstreamCalls, upstreamEmitted, upstreamOutcome,
                   assistantAttempts, cancelled>>

\* a start() that issues the 'assistant' insert a second time when the
\* first one reports an error
AssistantInsertReturnsRetry ==
    /\ pc = "insertAssistantMessage"
    /\ \/ /\ messages' =
                 Append(messages,
                        [conversation_id |-> conversationId,
                         role |-> "assistant",
                         content |-> fullAssistantMessage])
          /\ IF streamState = "readable"
             THEN streamState' = "closed" /\ closeCalled' = TRUE
             ELSE streamState' = ControllerError /\ UNCHANGED closeCalled
          /\ pc' = "done"
          /\ UNCHANGED <<reported, assistantAttempts>>
       \/ \E assistantMsgError \in StoreErrors :
            /\ assistantAttempts < 2
            /\ reported' = reported \cup {"assistantMsgError"}
            /\ assistantAttempts' = assistantAttempts + 1
            /\ UNCHANGED <<messages, streamState, closeCalled, pc>>
    /\ UNCHANGED <<message, existingConversationId, user, conversationId,
                   conversations, fullAssistantMessage, response, enqueued,
                   upstreamCalls, upstreamEmitted, upstreamOutcome, cancelled>>

\* the 'assistant' insert returns (an error is only logged), then
\* controller.close(): it closes a readable stream and throws on any other,
\* which the catch block answers with controller.error
AssistantInsertReturns ==
    /\ pc = "insertAssistantMessage"
    /\ \/ /\ messages' =
                 Append(messages,
                        [conversation_id |-> conversationId,
                         role |-> "assistant",
                         content |-> fullAssistantMessage])
          /\ UNCHANGED reported
       \/ \E assistantMsgError \in StoreErrors :
            /\ reported' = reported \cup {"assistantMsgError"}
            /\ UNCHANGED messages
    /\ IF streamState = "readable"
       THEN streamState' = "closed" /\ closeCalled' = TRUE
       ELSE streamState' = ControllerError /\ UNCHANGED closeCalled
    /\ pc' = "done"
    /\ UNCHANGED <<message, existingConversationId, user, conversationId,
                   conversations, fullAssistantMessage, response, enqueued,
                   upstreamCalls, upstreamEmitted, upstreamOutcome,
                   assistantAttempts, cancelled>>

\* the client disconnects: the runtime cancels `readable`, which closes it;
\* the underlying source defines no cancel(), so start() is not told
ClientCancel ==
    /\ streamState = "readable"
    /\ streamState' = "closed"
    /\ cancelled' = TRUE
    /\ UNCHANGED <<reported, pc, message, existingConversationId, user, conversationId,
                   conversations, messages, fullAssistantMessage, response,
                   enqueued, upstreamCalls, upstreamEmitted, upstreamOutcome,
                   assistantAttempts, closeCalled>>

Next ==
    \/ GetUserReturns /\ UNCHANGED <<clientVars, peer>>
    \/ ConversationInsertReturns /\ UNCHANGED <<clientVars, peer>>
    \/ UserMessageInsertReturns /\ UNCHANGED <<clientVars, peer>>
    \/ GenerateContentStreamReturns /\ UNCHANGED <<clientVars, peer>>
    \/ UpstreamFragment /\ UNCHANGED <<clientVars, peer>>
    \/ UpstreamError /\ UNCHANGED <<clientVars, peer>>
    \/ UpstreamEnd /\ UNCHANGED <<clientVars, peer>>
    \/ AssistantInsertReturns /\ UNCHANGED <<clientVars, peer>>
    \/ ClientCancel /\ UNCHANGED <<clientVars, peer>>

Spec == Init /\ [][Next]_vars

\* the steps the relay takes once the call it awaits returns
RelayStep ==
    \/ GetUserReturns
    \/ ConversationInsertReturns
    \/ UserMessageInsertReturns
    \/ GenerateContentStreamReturns
    \/ UpstreamFragment
    \/ UpstreamError
    \/ UpstreamEnd
    \/ AssistantInsertReturns

\* every call the relay awaits returns, and the upstream stream ends or
\* errors; the client's disconnect is under no obligation to happen
FairSpec == Spec /\ WF_vars(RelayStep /\ UNCHANGED <<clientVars, peer>>)

----------------------------------------------------------------------------
(* The page: handleSubmit and the user's other actions *)

IsSpace(c) == c = " " \/ c = NL

RECURSIVE TrimStart(_)
TrimStart(text) ==
    IF text # <<>> /\ IsSpace(Head(text)) THEN TrimStart(Tail(text)) ELSE text

RECURSIVE TrimEnd(_)
TrimEnd(text) ==
    IF text # <<>> /\ IsSpace(text[Len(text)])
    THEN TrimEnd(SubSeq(text, 1, Len(text) - 1))
    ELSE text

\* String.prototype.trim
Trim(text) == TrimEnd(TrimStart(text))

\* what the user types before submitting
Inputs == {<<" ">>, <<" ", "H", "i", " ">>}

FallbackText ==
    <<"S", "o", "r", "r", "y", ",", " ", "I", " ", "e", "n", "c", "o", "u",
      "n", "t", "e", "r", "e", "d", " ", "a", "n", " ", "e", "r", "r", "o",
      "r", ".">>

\* the entry the catch block of handleSubmit appends
FallbackEntry == [role |-> "assistant", content |-> FallbackText]

\* the bytes of the response body, in the order the relay enqueued them
Body == Flatten(enqueued)

\* a first-chunk branch whose catch block drops the chunk
FirstChunkDropsUnparsed(chunk) ==
    LET firstNewlineIndex == IndexOf(chunk, NL) IN
    IF firstNewlineIndex = 0 THEN [text |-> chunk, id |-> Null]
    ELSE LET data == JsonParse(SubSeq(chunk, 1, firstNewlineIndex - 1)) IN
        IF ~data.ok THEN [text |-> <<>>, id |-> Null]
        ELSE [text |-> SubSeq(chunk, firstNewlineIndex + 1, Len(chunk)),
              id |-> IF data.key = ConversationIdKey /\ data.value # <<>>
                     THEN data.value ELSE Null]

\* the first-chunk branch of the read loop (page.tsx:174-191): the text to
\* append, and the conversation id of the preamble (Null without one)
FirstChunk(chunk) ==
    LET firstNewlineIndex == IndexOf(chunk, NL) IN
    IF firstNewlineIndex = 0 THEN [text |-> chunk, id |-> Null]
    ELSE LET data == JsonParse(SubSeq(chunk, 1, firstNewlineIndex - 1)) IN
        IF ~data.ok THEN [text |-> chunk, id |-> Null]
        ELSE [text |-> SubSeq(chunk, firstNewlineIndex + 1, Len(chunk)),
              id |-> IF data.key = ConversationIdKey /\ data.value # <<>>
                     THEN data.value ELSE Null]

\* handleSubmit up to its fetch: a no-op on blank input or while loading;
\* the request carries the conversationId of the render it was made in
HandleSubmit ==
    /\ clientPc = "idle"
    /\ pc = "idle"
    /\ Trim(input) # <<>>
    /\ ~loading
    /\ userMessage' = Trim(input)
    /\ input' = <<>>
    /\ submittedFrom' = uiMessages
    /\ uiMessages' =
           Append(uiMessages, [role |-> "user", content |-> Trim(input)])
    /\ loading' = TRUE
    /\ closureConversationId' = uiConversationId
    /\ message' = Trim(input)
    /\ existingConversationId' = uiConversationId
    /\ pc' = "getUser"
    /\ clientPc' = "fetching"
    /\ UNCHANGED <<peer, splits, clicks, user, conversationId, conversations, messages,
                   fullAssistantMessage, streamState, response, enqueued,
                   upstreamCalls, upstreamEmitted, upstreamOutcome,
                   assistantAttempts, closeCalled, reported, cancelled,
                   uiConversationId, assistantMessage, isFirstChunk, readPos,
                   loadPending, fetchConversationsCalls, firstRead, readFailed>>
\* a catch block with no finally block after it
CatchWithoutFinally ==
    /\ uiMessages' = Append(uiMessages, FallbackEntry)
    /\ clientPc' = "finished"
    /\ UNCHANGED loading


\* the catch and finally blocks of handleSubmit
CatchAndFinally ==
    /\ uiMessages' = Append(uiMessages, FallbackEntry)
    /\ loading' = FALSE
    /\ clientPc' = "finished"

\* fetch resolves with the relay's Response: a non-OK one is thrown into the
\* catch block, an OK one gets the empty assistant placeholder
FetchReturns ==
    /\ clientPc = "fetching"
    /\ response # NoResponse
    /\ IF response.status \in 200..299
       THEN /\ uiMessages' =
                   Append(uiMessages, [role |-> "assistant", content |-> <<>>])
            /\ assistantMessage' = <<>>
            /\ isFirstChunk' = TRUE
            /\ clientPc' = "reading"
            /\ UNCHANGED loading
       ELSE /\ CatchAndFinally
            /\ UNCHANGED <<assistantMessage, isFirstChunk>>
    /\ UNCHANGED <<peer, splits, clicks, pc, message, existingConversationId, user, conversationId,
                   conversations, messages, fullAssistantMessage, streamState,
                   response, enqueued, upstreamCalls, upstreamEmitted,
                   upstreamOutcome, assistantAttempts, closeCalled, reported,
                   cancelled, input, uiConversationId, closureConversationId,
                   userMessage, readPos, loadPending, fetchConversationsCalls,
                   firstRead, readFailed, submittedFrom>>

\* fetch rejects (the network fails before a response arrives)
FetchRejects ==
    /\ clientPc = "fetching"
    /\ CatchAndFinally
    /\ UNCHANGED <<peer, splits, clicks, pc, message, existingConversationId, user, conversationId,
                   conversations, messages, fullAssistantMessage, streamState,
                   response, enqueued, upstreamCalls, upstreamEmitted,
                   upstreamOutcome, assistantAttempts, closeCalled, reported,
                   cancelled, input, uiConversationId, closureConversationId,
                   userMessage, assistantMessage, isFirstChunk, readPos,
                   loadPending, fetchConversationsCalls, firstRead, readFailed,
                   submittedFrom>>

RECURSIVE ChunkEnds(_)
\* the positions of the response body where a chunk the relay enqueued ends
ChunkEnds(chunks) ==
    IF chunks = <<>> THEN {}
    ELSE ChunkEnds(SubSeq(chunks, 1, Len(chunks) - 1)) \cup {Len(Flatten(chunks))}

\* the updater of page.tsx:196-200 on transcript `prev`
OverwriteLast(prev, text) ==
    [prev EXCEPT ![Len(prev)] = [role |-> prev[Len(prev)].role, content |-> text]]

\* reader.read() returns some of the bytes the relay has sent, cut where the
\* transport cuts them; the loop body decodes them, handles the first chunk,
\* appends, and overwrites the last transcript entry.  On an empty
\* transcript the updater throws while React renders, which takes the page
\* down.
ReadChunk ==
    /\ clientPc = "reading"
    /\ \E n \in 1..(Len(Body) - readPos) :
        LET value == SubSeq(Body, readPos + 1, readPos + n)
            chunk == TextDecode(value)
            first == FirstChunk(chunk)
            appended == IF isFirstChunk THEN first.text ELSE chunk
            setsId == /\ isFirstChunk
                      /\ first.id # Null
                      /\ Falsy(closureConversationId)
        IN /\ readPos' = readPos + n
           /\ \/ readPos + n \in ChunkEnds(enqueued) /\ UNCHANGED splits
              \/ /\ readPos + n \notin ChunkEnds(enqueued)
                 /\ splits < MaxSplits
                 /\ splits' = splits + 1
           /\ firstRead' = IF isFirstChunk THEN value ELSE firstRead
           /\ isFirstChunk' = FALSE
           /\ assistantMessage' = assistantMessage \o appended
           /\ uiConversationId' = IF setsId THEN first.id ELSE uiConversationId
           /\ fetchConversationsCalls' =
                  IF setsId THEN fetchConversationsCalls + 1
                  ELSE fetchConversationsCalls
           /\ IF uiMessages = <<>>
              THEN clientPc' = "crashed" /\ UNCHANGED uiMessages
              ELSE /\ uiMessages' =
                          OverwriteLast(uiMessages, assistantMessage \o appended)
                   /\ UNCHANGED clientPc
    /\ UNCHANGED <<peer, clicks, pc, message, existingConversationId, user, conversationId,
                   conversations, messages, fullAssistantMessage, streamState,
                   response, enqueued, upstreamCalls, upstreamEmitted,
                   upstreamOutcome, assistantAttempts, closeCalled, reported,
                   cancelled, input, loading, closureConversationId,
                   userMessage, loadPending, readFailed, submittedFrom>>

\* reader.read() returns done: the relay closed the stream and every byte
\* was read; the loop breaks and the finally block runs
ReadDone ==
    /\ clientPc = "reading"
    /\ closeCalled
    /\ readPos = Len(Body)
    /\ loading' = FALSE
    /\ clientPc' = "finished"
    /\ UNCHANGED <<peer, splits, clicks, pc, message, existingConversationId, user, conversationId,
                   conversations, messages, fullAssistantMessage, streamState,
                   response, enqueued, upstreamCalls, upstreamEmitted,
                   upstreamOutcome, assistantAttempts, closeCalled, reported,
                   cancelled, input, uiMessages, uiConversationId,
                   closureConversationId, userMessage, assistantMessage,
                   isFirstChunk, readPos, loadPending, fetchConversationsCalls,
                   firstRead, readFailed, submittedFrom>>

\* reader.read() rejects because the relay errored the stream, whether or
\* not every byte sent before was read
ReadError ==
    /\ clientPc = "reading"
    /\ streamState = "errored"
    /\ readFailed' = TRUE
    /\ CatchAndFinally
    /\ UNCHANGED <<peer, splits, clicks, pc, message, existingConversationId, user, conversationId,
                   conversations, messages, fullAssistantMessage, streamState,
                   response, enqueued, upstreamCalls, upstreamEmitted,
                   upstreamOutcome, assistantAttempts, closeCalled, reported,
                   cancelled, input, uiConversationId, closureConversationId,
                   userMessage, assistantMessage, isFirstChunk, readPos,
                   loadPending, fetchConversationsCalls, firstRead,
                   submittedFrom>>

\* the user clicks "new chat"
StartNewChat ==
    /\ clientPc # "crashed"
    /\ clicks < MaxClicks
    /\ clicks' = clicks + 1
    /\ uiConversationId' = Null
    /\ uiMessages' = <<>>
    /\ UNCHANGED <<peer, splits, pc, message, existingConversationId, user, conversationId,
                   conversations, messages, fullAssistantMessage, streamState,
                   response, enqueued, upstreamCalls, upstreamEmitted,
                   upstreamOutcome, assistantAttempts, closeCalled, reported,
                   cancelled, clientPc, input, loading, closureConversationId,
                   userMessage, assistantMessage, isFirstChunk, readPos,
                   loadPending, fetchConversationsCalls, firstRead, readFailed,
                   submittedFrom>>

\* the user clicks a conversation of the list: loadConversation up to its
\* select (one loadConversation is in flight at a time)
LoadConversation ==
    /\ clientPc # "crashed"
    /\ loadPending = Null
    /\ clicks < MaxClicks
    /\ clicks' = clicks + 1
    /\ \E i \in 1..Len(conversations) :
        /\ loading' = TRUE
        /\ uiConversationId' = conversations[i].id
        /\ loadPending' = conversations[i].id
    /\ UNCHANGED <<peer, splits, pc, message, existingConversationId, user, conversationId,
                   conversations, messages, fullAssistantMessage, streamState,
                   response, enqueued, upstreamCalls, upstreamEmitted,
                   upstreamOutcome, assistantAttempts, closeCalled, reported,
                   cancelled, clientPc, input, uiMessages,
                   closureConversationId, userMessage, assistantMessage,
                   isFirstChunk, readPos, fetchConversationsCalls, firstRead,
                   readFailed, submittedFrom>>

IsOfPending(m) == m.conversation_id = loadPending

\* the rows of the select of page.tsx:75-79, mapped as page.tsx:82-85
LoadedMessages ==
    LET rows == SelectSeq(messages, IsOfPending) IN
    [i \in 1..Len(rows) |-> [role |-> rows[i].role, content |-> rows[i].content]]

\* the select of loadConversation returns: with rows the transcript is
\* replaced, without data it is kept; loading is cleared
LoadConversationReturns ==
    /\ clientPc # "crashed"
    /\ loadPending # Null
    /\ \/ uiMessages' = LoadedMessages
       \/ UNCHANGED uiMessages
    /\ loading' = FALSE
    /\ loadPending' = Null
    /\ UNCHANGED <<peer, splits, clicks, pc, message, existingConversationId, user, conversationId,
                   conversations, messages, fullAssistantMessage, streamState,
                   response, enqueued, upstreamCalls, upstreamEmitted,
                   upstreamOutcome, assistantAttempts, closeCalled, reported,
                   cancelled, clientPc, input, uiConversationId,
                   closureConversationId, userMessage, assistantMessage,
                   isFirstChunk, readPos, fetchConversationsCalls, firstRead,
                   readFailed, submittedFrom>>

\* the relay before the request arrives
RelayIdle ==
    /\ pc = "idle"
    /\ message = <<>>
    /\ existingConversationId = Null
    /\ user = NoUser
    /\ conversationId = Null
    /\ conversations = InitConversations
    /\ messages = InitMessages
    /\ fullAssistantMessage = <<>>
    /\ streamState = "none"
    /\ response = NoResponse
    /\ enqueued = <<>>
    /\ upstreamCalls = 0
    /\ upstreamEmitted = <<>>
    /\ upstreamOutcome = "none"
    /\ assistantAttempts = 0
    /\ closeCalled = FALSE
    /\ reported = {}
    /\ cancelled = FALSE
    /\ peer = NoPeer

\* the page with a new chat or with the stored conversation loaded
SystemInit ==
    /\ RelayIdle
    /\ \E text \in Inputs, id \in {Null, OldId} : PageIdle(text, id)

\* the page stays connected: it has no way to abort its fetch
SystemNext ==
    \/ HandleSubmit
    \/ RelayStep /\ UNCHANGED <<clientVars, peer>>
    \/ FetchReturns
    \/ FetchRejects
    \/ ReadChunk
    \/ ReadDone
    \/ ReadError
    \/ StartNewChat
    \/ LoadConversation
    \/ LoadConversationReturns

System == SystemInit /\ [][SystemNext]_vars

----------------------------------------------------------------------------
(* The read loop of handleSubmit over a response body of any content *)

\* response bodies: text and a newline and a preamble, no newline at all, a
\* preamble and text
Bodies ==
    {<<"x", NL>> \o InitialPayload(<<"c", "2">>) \o <<"H">>,
     <<"H", "i">>,
     InitialPayload(<<"c", "2">>) \o <<"e_acute", NL>>}

\* handleSubmit awaits the fetch of "Hi"; the response is an OK stream that
\* holds the bytes of one of the bodies and is closed, and the transport
\* may cut it after any byte
ReaderInit ==
    /\ \E text \in Bodies :
           enqueued = [i \in 1..Len(TextEncode(text)) |-> <<TextEncode(text)[i]>>]
    /\ \E id \in {Null, OldId} :
        /\ uiConversationId = id
        /\ closureConversationId = id
        /\ existingConversationId = id
        /\ conversationId = IF id = Null THEN <<"c", "2">> ELSE id
        /\ uiMessages = <<[role |-> "user", content |-> <<"H", "i">>]>>
    /\ pc = "done"
    /\ message = <<"H", "i">>
    /\ user = "u1"
    /\ conversations = InitConversations
    /\ messages = InitMessages
    /\ fullAssistantMessage = <<>>
    /\ streamState = "closed"
    /\ response = StreamResponse
    /\ upstreamCalls = 1
    /\ upstreamEmitted = <<>>
    /\ upstreamOutcome = "end"
    /\ assistantAttempts = 1
    /\ closeCalled = TRUE
    /\ reported = {"assistantMsgError"}
    /\ cancelled = FALSE
    /\ clientPc = "fetching"
    /\ input = <<>>
    /\ loading = TRUE
    /\ userMessage = <<"H", "i">>
    /\ assistantMessage = <<>>
    /\ isFirstChunk = TRUE
    /\ readPos = 0
    /\ loadPending = Null
    /\ fetchConversationsCalls = 0
    /\ firstRead = <<>>
    /\ readFailed = FALSE
    /\ splits = 0
    /\ clicks = 0
    /\ submittedFrom = <<>>
    /\ peer = NoPeer

ReaderNext ==
    \/ FetchReturns
    \/ ReadChunk
    \/ ReadDone

Reader == ReaderInit /\ [][ReaderNext]_vars

----------------------------------------------------------------------------
(* handleSubmit against a request whose response has ended or failed *)

\* the relay is done: it answered with a non-OK response, or with a stream
\* that it closed or errored after some bytes
SettledOutcome ==
    \/ /\ response \in {UnauthorizedResponse}
                       \cup {ErrorResponse(error) : error \in UpstreamErrors}
       /\ streamState = "none"
       /\ enqueued = <<>>
       /\ closeCalled = FALSE
    \/ /\ response = StreamResponse
       /\ \E text \in Bodies : enqueued = <<TextEncode(text)>>
       /\ \/ streamState = "closed" /\ closeCalled = TRUE
          \/ streamState = "errored" /\ closeCalled = FALSE

\* handleSubmit awaits the fetch of "Hi" and the relay is done with it
SettledInit ==
    /\ SettledOutcome
    /\ \E id \in {Null, OldId} :
        /\ uiConversationId = id
        /\ closureConversationId = id
        /\ existingConversationId = id
        /\ conversationId = IF id = Null THEN <<"c", "2">> ELSE id
    /\ uiMessages = <<[role |-> "user", content |-> <<"H", "i">>]>>
    /\ pc = "done"
    /\ message = <<"H", "i">>
    /\ user = IF response = UnauthorizedResponse THEN NoUser ELSE "u1"
    /\ conversations = InitConversations
    /\ messages = InitMessages
    /\ fullAssistantMessage = <<>>
    /\ upstreamCalls = IF response = UnauthorizedResponse THEN 0 ELSE 1
    /\ upstreamEmitted = <<>>
    /\ upstreamOutcome =
           IF streamState = "closed" THEN "end"
           ELSE IF streamState = "errored" THEN "error" ELSE "none"
    /\ assistantAttempts = IF streamState = "closed" THEN 1 ELSE 0
    /\ reported = {}
    /\ cancelled = FALSE
    /\ clientPc = "fetching"
    /\ input = <<>>
    /\ loading = TRUE
    /\ userMessage = <<"H", "i">>
    /\ assistantMessage = <<>>
    /\ isFirstChunk = TRUE
    /\ readPos = 0
    /\ loadPending = Null
    /\ fetchConversationsCalls = 0
    /\ firstRead = <<>>
    /\ readFailed = FALSE
    /\ splits = 0
    /\ clicks = 0
    /\ submittedFrom = <<>>
    /\ peer = NoPeer

\* a settled reader.read() resumes handleSubmit
ReadSettles == ReadChunk \/ ReadDone \/ ReadError

SettledNext ==
    \/ FetchReturns
    \/ FetchRejects
    \/ ReadChunk
    \/ ReadDone
    \/ ReadError

\* the fetch settles and, the stream having ended or failed, so does every
\* read
Settled ==
    /\ SettledInit
    /\ [][SettledNext]_vars
    /\ WF_vars(FetchReturns)
    /\ WF_vars(ReadSettles)

----------------------------------------------------------------------------
(* Two POSTs in one process, both for the stored conversation *)

\* the request texts of the two POSTs
FirstText == <<"H", "i">>
SecondText == <<"o", "k">>

\* the locals of the POST that is running
Self ==
    [pc |-> pc,
     message |-> message,
     existingConversationId |-> existingConversationId,
     user |-> user,
     conversationId |-> conversationId,
     fullAssistantMessage |-> fullAssistantMessage,
     streamState |-> streamState,
     response |-> response,
     enqueued |-> enqueued,
     upstreamCalls |-> upstreamCalls,
     upstreamEmitted |-> upstreamEmitted,
     upstreamOutcome |-> upstreamOutcome,
     assistantAttempts |-> assistantAttempts,
     closeCalled |-> closeCalled,
     reported |-> reported,
     cancelled |-> cancelled]

\* the running POST is suspended at its await and the other one resumes
\* with its own locals, its accumulator being `accumulator`; the store is
\* the one thing they share
SwitchTo(accumulator) ==
    /\ peer.pc \notin {"none", "done"}
    /\ peer' = Self
    /\ pc' = peer.pc
    /\ message' = peer.message
    /\ existingConversationId' = peer.existingConversationId
    /\ user' = peer.user
    /\ conversationId' = peer.conversationId
    /\ fullAssistantMessage' = accumulator
    /\ streamState' = peer.streamState
    /\ response' = peer.response
    /\ enqueued' = peer.enqueued
    /\ upstreamCalls' = peer.upstreamCalls
    /\ upstreamEmitted' = peer.upstreamEmitted
    /\ upstreamOutcome' = peer.upstreamOutcome
    /\ assistantAttempts' = peer.assistantAttempts
    /\ closeCalled' = peer.closeCalled
    /\ reported' = peer.reported
    /\ cancelled' = peer.cancelled
    /\ UNCHANGED <<conversations, messages, clientVars>>

\* a relay whose accumulator is one variable of the module, shared by
\* every POST
SwitchSharedAccumulator == SwitchTo(fullAssistantMessage)

\* fullAssistantMessage is a `let` of POST (route.ts:51): each POST has
\* its own
Switch == SwitchTo(peer.fullAssistantMessage)

PairInit ==
    /\ PageIdle(<<>>, Null)
    /\ pc = "getUser"
    /\ message = FirstText
    /\ existingConversationId = OldId
    /\ user = NoUser
    /\ conversationId = Null
    /\ conversations = InitConversations
    /\ messages = InitMessages
    /\ fullAssistantMessage = <<>>
    /\ streamState = "none"
    /\ response = NoResponse
    /\ enqueued = <<>>
    /\ upstreamCalls = 0
    /\ upstreamEmitted = <<>>
    /\ upstreamOutcome = "none"
    /\ assistantAttempts = 0
    /\ closeCalled = FALSE
    /\ reported = {}
    /\ cancelled = FALSE
    /\ peer = [pc |-> "getUser",
               message |-> SecondText,
               existingConversationId |-> OldId,
               user |-> NoUser,
               conversationId |-> Null,
               fullAssistantMessage |-> <<>>,
               streamState |-> "none",
               response |-> NoResponse,
               enqueued |-> <<>>,
               upstreamCalls |-> 0,
               upstreamEmitted |-> <<>>,
               upstreamOutcome |-> "none",
               assistantAttempts |-> 0,
               closeCalled |-> FALSE,
               reported |-> {},
               cancelled |-> FALSE]

\* the steps of the two POSTs in any order; both carry a conversation id, so
\* neither inserts a conversation, and both clients stay connected
PairNext ==
    \/ GetUserReturns /\ UNCHANGED <<clientVars, peer>>
    \/ UserMessageInsertReturns /\ UNCHANGED <<clientVars, peer>>
    \/ GenerateContentStreamReturns /\ UNCHANGED <<clientVars, peer>>
    \/ UpstreamFragment /\ UNCHANGED <<clientVars, peer>>
    \/ UpstreamError /\ UNCHANGED <<clientVars, peer>>
    \/ UpstreamEnd /\ UNCHANGED <<clientVars, peer>>
    \/ AssistantInsertReturns /\ UNCHANGED <<clientVars, peer>>
    \/ Switch

Pair == PairInit /\ [][PairNext]_vars

----------------------------------------------------------------------------
(* Sanity of the model's values *)

TypeOK ==
    /\ pc \in {"idle", "getUser", "insertConversation", "insertUserMessage",
               "generateContentStream", "streaming", "insertAssistantMessage",
               "done"}
    /\ streamState \in {"none", "readable", "closed", "errored"}
    /\ upstreamOutcome \in {"none", "end", "error"}
    /\ Len(upstreamEmitted) <= MaxFragments

----------------------------------------------------------------------------
(* What the request has done, read off the store and the stream *)

\* the conversation rows this request inserted
NewConversations ==
    SubSeq(conversations, Len(InitConversations) + 1, Len(conversations))

\* the message rows this request inserted
NewMessages == SubSeq(messages, Len(InitMessages) + 1, Len(messages))

IsUser(m) == m.role = "user"
IsAssistant(m) == m.role = "assistant"

UserInserts == SelectSeq(NewMessages, IsUser)
AssistantInserts == SelectSeq(NewMessages, IsAssistant)

\* the store holds what it held before the request
NoStoreWrite == conversations = InitConversations /\ messages = InitMessages

\* the text of the first chunk of the response
FirstChunkText == TextDecode(enqueued[1])

\* the chunks enqueued after the preamble, concatenated
BodyBytes == Flatten(Tail(enqueued))

\* the request carries a conversation id: a non-empty string
CarriesId == existingConversationId # Null /\ existingConversationId # <<>>

\* the id the request resolves to: the one it carries, or the one of the
\* conversation it created
ResolvedId ==
    IF CarriesId
    THEN existingConversationId
    ELSE NewConversations[Len(NewConversations)].id

\* the first chunk is the preamble of conversation id `id`: a JSON object
\* with that conversationId, then one newline, which ends the chunk
IsPreambleOf(id) ==
    /\ Len(enqueued) >= 1
    /\ LET nl == IndexOf(FirstChunkText, NL)
           parsed == JsonParse(SubSeq(FirstChunkText, 1, nl - 1))
       IN /\ nl > 0
          /\ nl = Len(FirstChunkText)
          /\ parsed.ok
          /\ parsed.key = ConversationIdKey
          /\ parsed.value = id

\* every chunk after the preamble is one upstream fragment, in order
ForwardedInOrder ==
    /\ Len(enqueued) >= 1
    /\ Len(enqueued) - 1 <= Len(upstreamEmitted)
    /\ \A i \in 1..(Len(enqueued) - 1) :
           enqueued[i + 1] = TextEncode(upstreamEmitted[i])

----------------------------------------------------------------------------
(* Claims *)

\* C1: when an authenticated request without a conversation id (null) has
\* called the upstream, the store holds exactly one conversation inserted by
\* it, owned by the caller, and exactly one 'user' message inserted by it,
\* carrying the request's text; the request never inserts more than one of
\* either and calls the upstream at most once.
C1_InsertsBeforeUpstream ==
    (existingConversationId = Null /\ pc # "getUser" /\ user # NoUser) =>
        /\ Len(NewConversations) <= 1
        /\ Len(UserInserts) <= 1
        /\ upstreamCalls <= 1
        /\ upstreamCalls > 0 =>
            /\ Len(NewConversations) = 1
            /\ NewConversations[1].user_id = user
            /\ Len(UserInserts) = 1
            /\ UserInserts[1].content = message
            /\ UserInserts[1].conversation_id = NewConversations[1].id

C1_Witness ==
    /\ existingConversationId = Null
    /\ user # NoUser
    /\ upstreamCalls = 1
    /\ pc = "generateContentStream"
    /\ Len(NewConversations) = 1
    /\ Len(UserInserts) = 1

\* C2: when the upstream has ended and the assistant insert succeeded, the
\* chunks enqueued after the preamble, concatenated, are the UTF-8 bytes of
\* the upstream's fragments, concatenated, and of the content of the
\* 'assistant' message inserted, which is that text.
C2_RelayedTextIsPersistedText ==
    (upstreamOutcome = "end" /\ Len(AssistantInserts) >= 1) =>
        /\ Len(AssistantInserts) = 1
        /\ BodyBytes = TextEncode(Flatten(upstreamEmitted))
        /\ BodyBytes = TextEncode(AssistantInserts[1].content)
        /\ TextDecode(BodyBytes) = AssistantInserts[1].content
        /\ AssistantInserts[1].content = Flatten(upstreamEmitted)

C2_Witness ==
    /\ pc = "done"
    /\ closeCalled
    /\ Len(AssistantInserts) = 1
    /\ Len(upstreamEmitted) = 2
    /\ upstreamEmitted[1] # <<>>
    /\ upstreamEmitted[2] # <<>>
    /\ upstreamEmitted[1] # upstreamEmitted[2]

\* C3 as stated: once the upstream stream has raised an error, no 'assistant'
\* message is inserted and the response stream is in the errored state.
C3_Original ==
    upstreamOutcome = "error" =>
        /\ Len(AssistantInserts) = 0
        /\ assistantAttempts = 0
        /\ streamState = "errored"

\* The part of C3 that holds on every path: once the upstream stream has
\* raised an error, no 'assistant' message is inserted, controller.close() is
\* never called, and the response stream is in the errored state unless the
\* client had cancelled it before, when it stays closed by the cancellation.
UpstreamErrorPersistsNothing ==
    upstreamOutcome = "error" =>
        /\ Len(AssistantInserts) = 0
        /\ assistantAttempts = 0
        /\ ~closeCalled
        /\ streamState = IF cancelled THEN "closed" ELSE "errored"

\* C4: the 'assistant' insert is issued at most once, only after the upstream
\* has ended with every fragment forwarded, exactly once when the upstream
\* has ended, and for the conversation id of the user message and preamble.
C4_AssistantInsertOnce ==
    /\ assistantAttempts <= 1
    /\ Len(AssistantInserts) <= assistantAttempts
    /\ upstreamOutcome = "end" => assistantAttempts = 1
    /\ assistantAttempts >= 1 =>
        /\ upstreamOutcome = "end"
        /\ Len(enqueued) = Len(upstreamEmitted) + 1
        /\ ForwardedInOrder
    /\ Len(AssistantInserts) >= 1 =>
        /\ Len(UserInserts) = 1
        /\ AssistantInserts[1].conversation_id = UserInserts[1].conversation_id
        /\ IsPreambleOf(AssistantInserts[1].conversation_id)

C4_Witness ==
    /\ pc = "done"
    /\ upstreamOutcome = "end"
    /\ assistantAttempts = 1
    /\ Len(AssistantInserts) = 1
    /\ Len(upstreamEmitted) = MaxFragments

\* C5: when the identity provider returned no user, the response is status
\* 401 with the body "Unauthorized", nothing was written to the store, the
\* upstream was not called and no stream was opened.
C5_Unauthorized ==
    (pc # "getUser" /\ user = NoUser) =>
        /\ pc = "done"
        /\ response.status = 401
        /\ response.body = UnauthorizedText
        /\ NoStoreWrite
        /\ upstreamCalls = 0
        /\ streamState = "none"
        /\ enqueued = <<>>

C5_Witness ==
    /\ pc = "done"
    /\ user = NoUser
    /\ response.status = 401
    /\ existingConversationId = Null

\* C6: once the response stream is opened, the first chunk enqueued is the
\* preamble of the resolved conversation id (the text before its first
\* newline parses as a JSON object whose conversationId is that id, and the
\* newline ends the chunk), and every later chunk is an upstream fragment.
C6_PreambleFirst ==
    streamState # "none" =>
        /\ IsPreambleOf(ResolvedId)
        /\ conversationId = ResolvedId
        /\ enqueued[1] = TextEncode(InitialPayload(ResolvedId))
        /\ ForwardedInOrder

C6_Witness ==
    /\ streamState = "readable"
    /\ existingConversationId = OddId
    /\ Len(enqueued) = 2
    /\ IndexOf(TextDecode(enqueued[2]), NL) > 0

\* C7: a request that carries a conversation id inserts no conversation,
\* and its user message, preamble and assistant message use that id.
C7_ExistingConversationKept ==
    CarriesId =>
        /\ conversations = InitConversations
        /\ \A i \in 1..Len(NewMessages) :
               NewMessages[i].conversation_id = existingConversationId
        /\ streamState # "none" => IsPreambleOf(existingConversationId)

C7_Witness ==
    /\ existingConversationId = OldId
    /\ pc = "done"
    /\ Len(UserInserts) = 1
    /\ Len(AssistantInserts) = 1
    /\ closeCalled

\* C8 as stated: once the client has cancelled the response stream, the relay
\* reads no further upstream fragment, enqueues no further chunk and inserts
\* no 'assistant' message.
C8_NothingAfterCancel ==
    [][cancelled =>
        /\ upstreamEmitted' = upstreamEmitted
        /\ fullAssistantMessage' = fullAssistantMessage
        /\ enqueued' = enqueued
        /\ assistantAttempts' = assistantAttempts
        /\ messages' = messages]_vars

\* C9 as stated: a request that ended without opening the stream has a
\* response with a status outside 200..299 whose body is a JSON object.
C9_Original ==
    (pc = "done" /\ streamState = "none") =>
        /\ response.status \notin 200..299
        /\ JsonParse(response.body).ok

\* C9 amended: a request that ended without opening the stream has a
\* response with a status outside 200..299; when conversation creation, the
\* user-message insert or the upstream open failed, its body is the JSON
\* object { "error": <message> }; when authentication failed, its status is
\* 401 and its body is the plain text "Unauthorized", which is no JSON.
C9_PreStreamFailureResponse ==
    /\ (reported \cap {"convError", "userMsgError", "generateError"} # {}
        \/ (pc # "getUser" /\ user = NoUser)) =>
            pc = "done" /\ streamState = "none"
    /\ (pc = "done" /\ streamState = "none") =>
        /\ response.status \notin 200..299
        /\ response.status # 0
        /\ enqueued = <<>>
        /\ IF user = NoUser
           THEN /\ response = UnauthorizedResponse
                /\ ~JsonParse(response.body).ok
           ELSE /\ reported \cap {"convError", "userMsgError", "generateError"} # {}
                /\ response.contentType = "application/json"
                /\ JsonParse(response.body).ok
                /\ JsonParse(response.body).key = ErrorKey
                /\ JsonParse(response.body).value # <<>>

C9_Witness ==
    /\ pc = "done"
    /\ "generateError" \in reported
    /\ response.status = 429
    /\ Len(UserInserts) = 1

\* C10: when conversation creation has failed, no user message was inserted
\* and the upstream was not called; when the user-message insert has failed,
\* the upstream was not called; in both cases the request is over, no stream
\* was opened and no 'assistant' message was inserted or attempted.
C10_PersistenceFailureAborts ==
    /\ "convError" \in reported =>
        /\ Len(NewMessages) = 0
        /\ upstreamCalls = 0
    /\ "userMsgError" \in reported =>
        /\ upstreamCalls = 0
        /\ Len(UserInserts) = 0
    /\ reported \cap {"convError", "userMsgError"} # {} =>
        /\ pc = "done"
        /\ streamState = "none"
        /\ enqueued = <<>>
        /\ assistantAttempts = 0
        /\ Len(AssistantInserts) = 0

C10_Witness ==
    /\ "userMsgError" \in reported
    /\ Len(NewConversations) = 1
    /\ pc = "done"
    /\ response.status = 500

\* C11: when the 'assistant' insert has reported a failure, the chunks
\* enqueued are the preamble followed by every upstream fragment, no
\* 'assistant' message is in the store, and the response stream is closed
\* (by controller.close(), unless the client had closed it by cancelling),
\* never errored.
C11_AssistantInsertFailureIgnored ==
    "assistantMsgError" \in reported =>
        /\ pc = "done"
        /\ upstreamOutcome = "end"
        /\ Len(AssistantInserts) = 0
        /\ response = StreamResponse
        /\ IsPreambleOf(ResolvedId)
        /\ Len(enqueued) = Len(upstreamEmitted) + 1
        /\ ForwardedInOrder
        /\ streamState = "closed"
        /\ ~cancelled => closeCalled

C11_Witness ==
    /\ "assistantMsgError" \in reported
    /\ Len(upstreamEmitted) = MaxFragments
    /\ fullAssistantMessage # <<>>
    /\ closeCalled
    /\ streamState = "closed"

\* the title route.ts gives a conversation created for a request text
ExpectedTitle(text) ==
    IF Len(text) <= TitleLimit THEN text
    ELSE [i \in 1..(TitleLimit + 3) |->
             IF i <= TitleLimit THEN text[i] ELSE "."]

\* C18: no step of the relay changes or removes a row of the store: every
\* row stays where it is with its fields, and every message row has role
\* 'user' or 'assistant'; once the upstream open has failed, the user
\* message and the conversation the request created are in the store and
\* the response is the JSON error.
C18_InsertOnly ==
    [][/\ Len(messages') >= Len(messages)
       /\ SubSeq(messages', 1, Len(messages)) = messages
       /\ Len(conversations') >= Len(conversations)
       /\ SubSeq(conversations', 1, Len(conversations)) = conversations
       /\ \A i \in 1..Len(messages') :
              messages'[i].role \in {"user", "assistant"}
       /\ "generateError" \in reported' =>
              /\ Len(UserInserts') = 1
              /\ UserInserts'[1].content = message
              /\ ~CarriesId => Len(NewConversations') = 1
              /\ response'.contentType = "application/json"
              /\ JsonParse(response'.body).ok]_vars

C18_Witness ==
    /\ "generateError" \in reported
    /\ pc = "done"
    /\ Len(NewConversations) = 1
    /\ Len(UserInserts) = 1
    /\ response.status = 500

\* the request has its one terminal outcome: an error response and no
\* stream, or a stream closed by controller.close() after the one
\* 'assistant' insert attempt, or a stream errored and never closed
TerminalOutcome ==
    \/ /\ streamState = "none"
       /\ response # NoResponse
       /\ response.status \notin 200..299
       /\ enqueued = <<>>
    \/ /\ streamState = "closed"
       /\ closeCalled
       /\ assistantAttempts = 1
       /\ response = StreamResponse
    \/ /\ streamState = "errored"
       /\ ~closeCalled
       /\ response = StreamResponse

\* the stream was closed by the client's cancellation, not by the relay
ClosedByCancel ==
    /\ streamState = "closed"
    /\ cancelled
    /\ ~closeCalled
    /\ response = StreamResponse

\* C19 as stated, at the end of the request: the outcome is an error
\* response with no stream, a stream closed after the assistant insert
\* attempt, or an errored stream.
C19_Original == pc = "done" => TerminalOutcome

\* C19 amended: under fairness of the relay's steps every request
\* eventually ends and stays in exactly one terminal outcome: an error
\* response with no stream, a stream closed after the assistant insert
\* attempt, an errored stream, or a stream the client closed by cancelling;
\* the stream is never left readable.
C19_EventuallyTerminal ==
    <>[](/\ pc = "done"
         /\ streamState # "readable"
         /\ TerminalOutcome \/ ClosedByCancel
         /\ ~(TerminalOutcome /\ ClosedByCancel))

C19_Witness ==
    /\ pc = "done"
    /\ streamState = "errored"
    /\ Len(enqueued) = 2
    /\ ~cancelled

\* C20: a conversation the relay created has the title derived from the
\* request's message (the message when it has at most 50 characters, else
\* its first 50 characters and '...'), of at most 53 characters, and the
\* conversations that existed before keep their rows, title included.
C20_TitleFromFirstMessage ==
    /\ Len(NewConversations) <= 1
    /\ SubSeq(conversations, 1, Len(InitConversations)) = InitConversations
    /\ \A i \in 1..Len(NewConversations) :
           /\ NewConversations[i].title = ExpectedTitle(message)
           /\ Len(NewConversations[i].title) <= TitleLimit + 3
           /\ Len(message) <= TitleLimit =>
                  NewConversations[i].title = message

C20_Witness ==
    /\ Len(NewConversations) = 1
    /\ Len(message) = TitleLimit + 1
    /\ Len(NewConversations[1].title) = TitleLimit + 3
    /\ pc = "done"

\* the bytes of the read a step makes, decoded as the read loop decodes them
ChunkRead == TextDecode(SubSeq(Body, readPos + 1, readPos'))

\* the user clicked nothing since the page was idle
NoUserAction == clicks = 0 /\ loadPending = Null

\* C12: when reading the response fails after the placeholder was added,
\* the in-progress assistant entry is replaced by the fallback text: the
\* transcript ends with the user message of the turn and one assistant
\* entry, whose content is the fallback text.
C12_Original ==
    (clientPc = "finished" /\ readFailed /\ NoUserAction) =>
        /\ Len(uiMessages) = Len(submittedFrom) + 2
        /\ uiMessages[Len(uiMessages) - 1] =
               [role |-> "user", content |-> userMessage]
        /\ uiMessages[Len(uiMessages)] = FallbackEntry

\* C13: when the first read holds the whole preamble and its newline, the
\* visible text at end-of-stream is the text of the bytes the relay
\* enqueued after the preamble, however the transport cuts them into reads.
C13_Original ==
    (/\ clientPc = "finished"
     /\ ~readFailed
     /\ firstRead # <<>>
     /\ Len(firstRead) >= Len(enqueued[1])) =>
        assistantMessage = TextDecode(BodyBytes)

\* C14: each chunk the client processes overwrites the assistant
\* placeholder of this turn: the last entry was the in-progress assistant
\* entry and becomes the accumulated text, every other entry is unchanged,
\* whatever the user clicked in between.
C14_Original ==
    [][readPos' > readPos =>
        /\ uiMessages # <<>>
        /\ uiMessages[Len(uiMessages)] =
               [role |-> "assistant", content |-> assistantMessage]
        /\ Len(uiMessages') = Len(uiMessages)
        /\ uiMessages'[Len(uiMessages')] =
               [role |-> "assistant", content |-> assistantMessage']
        /\ \A i \in 1..(Len(uiMessages) - 1) : uiMessages'[i] = uiMessages[i]]_vars

\* C15: a first chunk that holds a whole preamble sets the page's
\* conversation id to the preamble's id and refreshes the list if and only
\* if the page holds no conversation id at that moment; an id the page
\* holds is kept.
C15_Original ==
    [][(readPos' > readPos /\ isFirstChunk /\ FirstChunk(ChunkRead).id # Null) =>
        IF uiConversationId = Null
        THEN /\ uiConversationId' = FirstChunk(ChunkRead).id
             /\ fetchConversationsCalls' = fetchConversationsCalls + 1
        ELSE /\ uiConversationId' = uiConversationId
             /\ fetchConversationsCalls' = fetchConversationsCalls]_vars

\* the turn started from an empty new chat and completed normally with a
\* successful assistant insert, and the page read the stream to its end
CompletedNewChatTurn ==
    /\ clientPc = "finished"
    /\ ~readFailed
    /\ firstRead # <<>>
    /\ readPos = Len(Body)
    /\ NoUserAction
    /\ submittedFrom = <<>>
    /\ closureConversationId = Null
    /\ pc = "done"
    /\ closeCalled
    /\ Len(AssistantInserts) = 1

\* C17: after such a turn the persisted messages of the conversation are
\* [user: the submitted text, assistant: the full upstream text] and the
\* transcript the page displays has the same roles and contents.
C17_Original ==
    CompletedNewChatTurn =>
        /\ NewMessages =
               <<[conversation_id |-> ResolvedId, role |-> "user",
                  content |-> userMessage],
                 [conversation_id |-> ResolvedId, role |-> "assistant",
                  content |-> Flatten(upstreamEmitted)]>>
        /\ uiMessages =
               [i \in 1..Len(NewMessages) |->
                   [role |-> NewMessages[i].role,
                    content |-> NewMessages[i].content]]

\* the first chunk holds no preamble the loop can use: it has no newline, or
\* the text before its first newline is no JSON
NoPreamble(chunk) ==
    \/ IndexOf(chunk, NL) = 0
    \/ ~JsonParse(SubSeq(chunk, 1, IndexOf(chunk, NL) - 1)).ok

\* C16: a first chunk without a newline, or whose text before the first
\* newline is no JSON, is appended whole, records no conversation id and
\* clears the first-chunk flag; every later chunk is appended verbatim and
\* records no conversation id, whatever it holds.
C16_UnparsedFirstChunkIsText ==
    [][readPos' > readPos =>
        LET chunk == TextDecode(SubSeq(Body, readPos + 1, readPos')) IN
        /\ isFirstChunk' = FALSE
        /\ (~isFirstChunk \/ NoPreamble(chunk)) =>
            /\ assistantMessage' = assistantMessage \o chunk
            /\ uiMessages'[Len(uiMessages')].content = assistantMessage'
            /\ uiConversationId' = uiConversationId
            /\ fetchConversationsCalls' = fetchConversationsCalls]_vars

C16_Witness ==
    /\ clientPc = "finished"
    /\ closureConversationId = Null
    /\ firstRead # <<>>
    /\ IndexOf(TextDecode(firstRead), NL) > 0
    /\ NoPreamble(TextDecode(firstRead))
    /\ Len(firstRead) < Len(Body)
    /\ assistantMessage = TextDecode(Body)
    /\ uiConversationId = Null

\* handleSubmit sent its request and the response has neither ended nor
\* failed yet
RequestInFlight == clientPc \in {"fetching", "reading"}

\* C21: from the moment handleSubmit sends its request until the response
\* stream has ended or failed, loading is true (so the guard of a further
\* handleSubmit returns at once), whatever the user clicks meanwhile.
C21_Original == RequestInFlight => loading

\* C23: a handleSubmit that set loading to true sets it back to false once
\* its request has finished: after a non-OK response, after a fetch or
\* read error and after a normal end-of-stream, provided the response
\* stream ends or fails.
C23_LoadingEventuallyCleared ==
    (clientPc = "fetching" /\ loading) ~> (clientPc = "finished" /\ ~loading)

C23_Witness ==
    /\ clientPc = "finished"
    /\ ~loading
    /\ readFailed
    /\ assistantMessage # <<>>
    /\ uiMessages[Len(uiMessages)] = FallbackEntry

\* the 'user' rows this run inserted for POST r
OwnUserRows(r) ==
    {i \in 1..Len(NewMessages) :
        NewMessages[i] = [conversation_id |-> r.existingConversationId,
                          role |-> "user", content |-> r.message]}

\* the contents of the 'assistant' rows POST r inserted: none, or the
\* concatenation of the fragments of its own upstream stream
OwnAssistantText(r) ==
    IF r.pc = "done" /\ r.upstreamOutcome = "end"
       /\ "assistantMsgError" \notin r.reported
    THEN <<Flatten(r.upstreamEmitted)>>
    ELSE <<>>

\* the chunks of POST r after its preamble are its own fragments, in order
OwnFragmentsOnly(r) ==
    r.enqueued # <<>> =>
        Tail(r.enqueued) =
            [i \in 1..Len(r.upstreamEmitted) |->
                TextEncode(r.upstreamEmitted[i])]

\* C22: with two POSTs running concurrently for the same conversation, in
\* every interleaving each POST whose user insert succeeded has inserted
\* exactly one 'user' message, with its own request text (and a POST that
\* failed before has inserted none); the 'assistant' rows are, per POST, the
\* concatenation of the fragments of its own upstream stream; and the
\* response of each carries its own fragments only.
C22_InvocationsIsolated ==
    /\ \A r \in {Self, peer} :
        /\ Cardinality(OwnUserRows(r)) = r.upstreamCalls
        /\ OwnFragmentsOnly(r)
    /\ Len(UserInserts) = upstreamCalls + peer.upstreamCalls
    /\ [i \in 1..Len(AssistantInserts) |-> AssistantInserts[i].content]
           \in {OwnAssistantText(Self) \o OwnAssistantText(peer),
                OwnAssistantText(peer) \o OwnAssistantText(Self)}
    /\ \A i \in 1..Len(NewMessages) : NewMessages[i].conversation_id = OldId

C22_Witness ==
    /\ pc = "done"
    /\ peer.pc = "done"
    /\ Len(AssistantInserts) = 2
    /\ Len(upstreamEmitted) = 2
    /\ Flatten(upstreamEmitted) # Flatten(peer.upstreamEmitted)
    /\ Flatten(peer.upstreamEmitted) # <<>>
    /\ NewMessages[2].role = "user"
    /\ NewMessages[1].content = SecondText
    /\ NewMessages[3].content = Flatten(peer.upstreamEmitted)
    /\ message = SecondText

====
